---- MODULE Spec2Model ----
(***************************************************************************)
(* Crop Manager Pro (main.py): the KnowledgeBase report generator, the     *)
(* DataManager JSON store, the AI_Engine classifier wrapper and the App    *)
(* handlers for start-up, sign-in, registration and the scan tab.  Text    *)
(* that the code transforms is a sequence of one-character strings, so     *)
(* that replace / strip / lower / substring / basename are computed rather *)
(* than assumed.                                                           *)
(***************************************************************************)
EXTENDS Integers, Sequences, FiniteSets, TLC

VARIABLES raw_label, confidence, report, file, constructed, ret, registered, ai, app

vars == <<raw_label, confidence, report, file, constructed, ret, registered, ai, app>>
kbVars == <<raw_label, confidence, report>>
dbVars == <<file, constructed, ret, registered>>
appVars == <<ai, app>>

(* ------------------------------- text --------------------------------- *)
UpperChars == <<"A","B","C","D","E","F","G","H","I","J","K","L","M","N","O","P","Q","R","S","T","U","V","W","X","Y","Z">>
LowerChars == <<"a","b","c","d","e","f","g","h","i","j","k","l","m","n","o","p","q","r","s","t","u","v","w","x","y","z">>
DigitChars == <<"0","1","2","3","4","5","6","7","8","9">>

LowerChar(c) ==
  IF \E i \in 1..Len(UpperChars) : UpperChars[i] = c
  THEN LowerChars[CHOOSE i \in 1..Len(UpperChars) : UpperChars[i] = c]
  ELSE c

\* str.lower()
Lower(s) == [i \in 1..Len(s) |-> LowerChar(s[i])]

\* str.replace("_", " ")
ReplaceUnderscore(s) == [i \in 1..Len(s) |-> IF s[i] = "_" THEN " " ELSE s[i]]

\* str.strip(): drop leading and trailing whitespace
Strip(s) ==
  LET nonSpace == {i \in 1..Len(s) : s[i] # " "}
  IN IF nonSpace = {} THEN <<>>
     ELSE LET lo == CHOOSE i \in nonSpace : \A j \in nonSpace : i <= j
              hi == CHOOSE i \in nonSpace : \A j \in nonSpace : j <= i
          IN SubSeq(s, lo, hi)

\* Python's  needle in hay  on strings
Contains(hay, needle) ==
  \E i \in 1..(Len(hay) - Len(needle) + 1) :
     SubSeq(hay, i, i + Len(needle) - 1) = needle

RECURSIVE Digits(_)
\* decimal digits of a natural number
Digits(n) ==
  IF n < 10 THEN <<DigitChars[n + 1]>>
  ELSE Digits(n \div 10) \o <<DigitChars[(n % 10) + 1]>>

\* f"{confidence * 100:.2f}%", the confidence held in basis points
\* (confidence = bp / 10000)
FormatPercent(bp) ==
  Digits(bp \div 100) \o <<".">>
    \o <<DigitChars[((bp % 100) \div 10) + 1], DigitChars[(bp % 10) + 1]>>
    \o <<"%">>

(* --------------------------- KnowledgeBase ---------------------------- *)
bacterial_spot == <<"b","a","c","t","e","r","i","a","l","_","s","p","o","t">>
early_blight == <<"e","a","r","l","y","_","b","l","i","g","h","t">>
late_blight == <<"l","a","t","e","_","b","l","i","g","h","t">>
powdery_mildew == <<"p","o","w","d","e","r","y","_","m","i","l","d","e","w">>
healthy == <<"h","e","a","l","t","h","y">>

\* the keys of ADVICE in dict (insertion) order
ADVICE_KEYS == <<bacterial_spot, early_blight, late_blight, powdery_mildew, healthy>>

\* the values of ADVICE, in the same order
ADVICE == <<
  [cause |-> "Bacterial infection (Xanthomonas)",
   symptoms |-> "Small, water-soaked spots on leaves turning brown/black.",
   treatment |-> "Apply copper-based fungicides. Remove infected leaves.",
   prevention |-> "Avoid overhead watering. Rotate crops yearly."],
  [cause |-> "Fungal infection (Alternaria solani)",
   symptoms |-> "Concentric rings (bullseye pattern) on lower leaves.",
   treatment |-> "Use bio-fungicides or copper sprays.",
   prevention |-> "Mulch soil to prevent spore splash. Stake plants."],
  [cause |-> "Water mold (Phytophthora infestans)",
   symptoms |-> "Large, dark, greasy blotches. White fuzzy growth.",
   treatment |-> "Use fungicides with chlorothalonil/copper immediately.",
   prevention |-> "Destroy infected debris. Do not compost."],
  [cause |-> "Fungal spores",
   symptoms |-> "White, flour-like powder on leaf surfaces.",
   treatment |-> "Neem oil, sulfur sprays, or baking soda mixture.",
   prevention |-> "Ensure good air circulation."],
  [cause |-> "N/A",
   symptoms |-> "Leaves are vibrant green and structurally sound.",
   treatment |-> "Continue current care routine.",
   prevention |-> "Monitor regularly."] >>

\* the default of ADVICE.get(key_match, {...})
GENERIC_ADVICE ==
  [cause |-> "Unknown pathogen or environmental stress.",
   symptoms |-> "Visible discoloration or lesions.",
   treatment |-> "Isolate plant. Consult local agricultural extension.",
   prevention |-> "Maintain general hygiene."]

\* the key chosen by the for/break loop: its index in ADVICE_KEYS, 0 for "generic"
key_match(clean_label) ==
  LET hits == {k \in 1..Len(ADVICE_KEYS) : Contains(Lower(clean_label), ADVICE_KEYS[k])}
  IN IF hits = {} THEN 0 ELSE CHOOSE k \in hits : \A j \in hits : k <= j

GLYPH_OK == "(check mark)"
GLYPH_WARN == "(warning sign)"

generate_report(label, bp) ==
  LET clean_label == Strip(ReplaceUnderscore(label))
      is_healthy == Contains(Lower(clean_label), healthy)
      km == key_match(clean_label)
      info == IF km = 0 THEN GENERIC_ADVICE ELSE ADVICE[km]
  IN [title |-> <<IF is_healthy THEN GLYPH_OK ELSE GLYPH_WARN, " ">> \o clean_label,
      status |-> IF is_healthy THEN "Healthy" ELSE "Infected",
      details |-> [diagnosis |-> clean_label,
                   confidence |-> FormatPercent(bp),
                   symptoms |-> info.symptoms,
                   treatment |-> info.treatment,
                   prevention |-> info.prevention]]

\* no report produced yet
NoReport ==
  [title |-> <<>>, status |-> "None",
   details |-> [diagnosis |-> <<>>, confidence |-> <<>>, symptoms |-> "",
                treatment |-> "", prevention |-> ""]]

(* inputs of the report generator *)
Crops == { <<>>, <<"T","o","m","a","t","o">>, <<"P","o","t","a","t","o">> }
Separators == { <<>>, <<"_","_","_">>, <<" ">> }
Diseases ==
  { <<"L","a","t","e","_","b","l","i","g","h","t">>,
    <<"E","a","r","l","y","_","b","l","i","g","h","t">>,
    <<"B","a","c","t","e","r","i","a","l","_","s","p","o","t">>,
    <<"P","o","w","d","e","r","y","_","m","i","l","d","e","w">>,
    <<"h","e","a","l","t","h","y">>,
    <<"H","e","a","l","t","h","y","_">>,
    <<"L","e","a","f","_","M","o","l","d">>,
    <<" ","U","n","k","n","o","w","n"," ">> }
RawLabels == {c \o s \o d : c \in Crops, s \in Separators, d \in Diseases}
Confidences == {0, 9300, 9999, 10000}

Tomato___Late_blight == <<"T","o","m","a","t","o","_","_","_","L","a","t","e","_","b","l","i","g","h","t">>
Late_blight_text == <<"L","a","t","e"," ","b","l","i","g","h","t">>

\* KnowledgeBase.generate_report applied to the label and confidence at hand
GenerateReport ==
  /\ report = NoReport
  /\ report' = generate_report(raw_label, confidence)
  /\ UNCHANGED <<raw_label, confidence, dbVars, appVars>>

(* ---------------------------- DataManager ----------------------------- *)
\* bound of the exploration: inventory items plus history entries in the store
MaxRecords == 2

UserNames == {"admin", "alice"}
Passwords == {"admin", "x"}
Ids == {"1f0c9a3e", "7b2d44c1"}
\* two of the four categories the Add Item dialog offers
AddCategories == {"Plant", "Fertilizer"}
ItemNames == {"Hoe"}
Qtys == {"3"}
Notes == {"in the shed"}
Dates == {"2024-05-01"}
Times == {"2024-05-01 10:30"}
ImagePaths == { <<"d","/","a">>, <<"b">> }
ScanLabels == { <<"T","o","m","a","t","o","_","_","_","h","e","a","l","t","h","y">> }
ScanReports == {generate_report(l, 9300) : l \in ScanLabels}

\* outcomes of one open-and-read, and of one open-and-write, of the store file
ReadOutcomes == {"ok", "fail"}
WriteOutcomes == {"ok", "fail"}

EmptyMap == [u \in {} |-> {}]
Put(m, k, v) == [x \in (DOMAIN m) \cup {k} |-> IF x = k THEN v ELSE m[x]]

\* the store file: absent, not JSON, a JSON value that is no object, or a JSON
\* object; wrapped says the object has the top-level "users" key, and body is
\* the map under that key (wrapped) or the object's own top-level map (flat)
MissingFile == [kind |-> "missing", wrapped |-> FALSE, body |-> EmptyMap]
UnparseableFile == [kind |-> "unparseable", wrapped |-> FALSE, body |-> EmptyMap]
ScalarFile == [kind |-> "scalar", wrapped |-> FALSE, body |-> EmptyMap]
Doc(users) == [kind |-> "object", wrapped |-> TRUE, body |-> users]
Flat(m) == [kind |-> "object", wrapped |-> FALSE, body |-> m]

\* the users the persisted store holds
StoreUsers(f) == IF f.kind = "object" /\ f.wrapped THEN f.body ELSE EmptyMap

\* "users" in db, for a db that is a JSON object
HasUsers(db) == db.kind = "object" /\ db.wrapped

\* os.path.exists(self.filepath)
exists(f) == f.kind # "missing"

\* os.path.basename
basename(path) ==
  LET seps == {i \in 1..Len(path) : path[i] = "/"}
  IN IF seps = {} THEN path
     ELSE SubSeq(path, (CHOOSE i \in seps : \A j \in seps : j <= i) + 1, Len(path))

_load(f, rd) ==
  IF rd = "fail" \/ f.kind \in {"missing", "unparseable"} THEN Doc(EmptyMap) ELSE f

\* a write that fails is swallowed and leaves the file as it was
_save(f, data, wr) == IF wr = "ok" THEN data ELSE f

\* hashlib.sha256(text.encode()).hexdigest()
_hash(text) ==
  CASE text = "admin" -> "8c6976e5b5410415bde908bd4dee15dfb167a9c873fc4bb8a81f6f2ab448a918"
    [] text = "x" -> "2d711642b726b04401627ca9fbac32f5c8530fb1903cc4db02258717921a4881"
    [] text = "y" -> "a1fce4363854ff888cff4b8e7875d600c2682390412a8cf79b37d0b11148b0fa"

\* list.insert(0, x)
Insert0(list, x) == <<x>> \o list

\* [i for i in inv if i["id"] != item_id]
WithoutId(inv, item_id) == SelectSeq(inv, LAMBDA i : i.id # item_id)

\* register_user without the "Username taken" test
register_user_overwrite(f, u, p, rd, wr) ==
  LET db == _load(f, rd)
  IN IF ~HasUsers(db) THEN [file |-> f, ok |-> FALSE, raised |-> TRUE]
     ELSE [file |-> _save(f, Doc(Put(db.body, u,
                              [password |-> _hash(p), history |-> <<>>, inventory |-> <<>>])), wr),
           ok |-> TRUE, raised |-> FALSE]

register_user(f, u, p, rd, wr) ==
  LET db == _load(f, rd)
  IN IF ~HasUsers(db) THEN [file |-> f, ok |-> FALSE, raised |-> TRUE]
     ELSE IF u \in DOMAIN db.body THEN [file |-> f, ok |-> FALSE, raised |-> FALSE]
     ELSE [file |-> _save(f, Doc(Put(db.body, u,
                              [password |-> _hash(p), history |-> <<>>, inventory |-> <<>>])), wr),
           ok |-> TRUE, raised |-> FALSE]

\* verify_user comparing the stored value with the password itself
verify_user_plain(f, u, p, rd) ==
  LET db == _load(f, rd)
      users == IF HasUsers(db) THEN db.body ELSE EmptyMap
  IN IF db.kind # "object" THEN [val |-> FALSE, raised |-> TRUE]
     ELSE [val |-> (u \in DOMAIN users /\ users[u].password = p), raised |-> FALSE]

verify_user(f, u, p, rd) ==
  LET db == _load(f, rd)
      users == IF HasUsers(db) THEN db.body ELSE EmptyMap
  IN IF db.kind # "object" THEN [val |-> FALSE, raised |-> TRUE]
     ELSE [val |-> (u \in DOMAIN users /\ users[u].password = _hash(p)), raised |-> FALSE]

\* add_item appending instead of inserting at index 0
add_item_append(f, user, name, category, qty, notes, id, today, rd, wr) ==
  LET db == _load(f, rd)
      item == [id |-> id, name |-> name, category |-> category, qty |-> qty,
               notes |-> notes, date |-> today]
  IN IF ~HasUsers(db) THEN [file |-> f, raised |-> TRUE]
     ELSE IF user \in DOMAIN db.body
     THEN [file |-> _save(f, Doc([db.body EXCEPT ![user].inventory = Append(@, item)]), wr),
           raised |-> FALSE]
     ELSE [file |-> f, raised |-> FALSE]

add_item(f, user, name, category, qty, notes, id, today, rd, wr) ==
  LET db == _load(f, rd)
      item == [id |-> id, name |-> name, category |-> category, qty |-> qty,
               notes |-> notes, date |-> today]
  IN IF ~HasUsers(db) THEN [file |-> f, raised |-> TRUE]
     ELSE IF user \in DOMAIN db.body
     THEN [file |-> _save(f, Doc([db.body EXCEPT ![user].inventory = Insert0(@, item)]), wr),
           raised |-> FALSE]
     ELSE [file |-> f, raised |-> FALSE]

get_inventory(f, user, rd) ==
  LET db == _load(f, rd)
      users == IF HasUsers(db) THEN db.body ELSE EmptyMap
  IN IF db.kind # "object" THEN [val |-> <<>>, raised |-> TRUE]
     ELSE [val |-> IF user \in DOMAIN users THEN users[user].inventory ELSE <<>>,
           raised |-> FALSE]

delete_item(f, user, item_id, rd, wr) ==
  LET db == _load(f, rd)
  IN IF ~HasUsers(db) THEN [file |-> f, raised |-> TRUE]
     ELSE IF user \in DOMAIN db.body
     THEN [file |-> _save(f, Doc([db.body EXCEPT ![user].inventory = WithoutId(@, item_id)]), wr),
           raised |-> FALSE]
     ELSE [file |-> f, raised |-> FALSE]

\* i.get("category", "Other")
CategoryOf(i) == IF "category" \in DOMAIN i THEN i.category ELSE "Other"

\* the loop body of get_stats without its else branch
Count_no_else(stats, i) ==
  LET cat == CategoryOf(i)
  IN IF cat \in DOMAIN stats THEN [stats EXCEPT ![cat] = @ + 1] ELSE stats

\* one pass of the loop body of get_stats
Count(stats, i) ==
  LET cat == CategoryOf(i)
  IN IF cat \in DOMAIN stats THEN [stats EXCEPT ![cat] = @ + 1]
     ELSE [stats EXCEPT !["Other"] = @ + 1]

RECURSIVE CountAll(_, _)
CountAll(stats, inv) ==
  IF inv = <<>> THEN stats ELSE CountAll(Count(stats, Head(inv)), Tail(inv))

get_stats(f, user, rd) ==
  LET got == get_inventory(f, user, rd)
  IN [val |-> CountAll([Plant |-> 0, Seed |-> 0, Tool |-> 0, Other |-> 0], got.val),
      inv |-> got.val, raised |-> got.raised]

\* log_scan appending instead of inserting at index 0
log_scan_append(f, user, img_path, rep, now, rd, wr) ==
  LET db == _load(f, rd)
      entry == [date |-> now, file |-> basename(img_path),
                result |-> rep.title, status |-> rep.status]
  IN IF ~HasUsers(db) THEN [file |-> f, raised |-> TRUE]
     ELSE IF user \in DOMAIN db.body
     THEN [file |-> _save(f, Doc([db.body EXCEPT ![user].history = Append(@, entry)]), wr),
           raised |-> FALSE]
     ELSE [file |-> f, raised |-> FALSE]

log_scan(f, user, img_path, rep, now, rd, wr) ==
  LET db == _load(f, rd)
      entry == [date |-> now, file |-> basename(img_path),
                result |-> rep.title, status |-> rep.status]
  IN IF ~HasUsers(db) THEN [file |-> f, raised |-> TRUE]
     ELSE IF user \in DOMAIN db.body
     THEN [file |-> _save(f, Doc([db.body EXCEPT ![user].history = Insert0(@, entry)]), wr),
           raised |-> FALSE]
     ELSE [file |-> f, raised |-> FALSE]

get_history(f, user, rd) ==
  LET db == _load(f, rd)
      users == IF HasUsers(db) THEN db.body ELSE EmptyMap
  IN IF db.kind # "object" THEN [val |-> <<>>, raised |-> TRUE]
     ELSE [val |-> IF user \in DOMAIN users THEN users[user].history ELSE <<>>,
           raised |-> FALSE]

\* the except branch, and the missing-file branch, of _ensure_db
ResetWithAdmin(f, rd, wr1, wr2) ==
  LET r == register_user(_save(f, Doc(EmptyMap), wr1), "admin", "admin", rd, wr2)
  IN [file |-> r.file, raised |-> r.raised, admin_ok |-> r.ok]

\* _ensure_db registering the default administrator on every start
_ensure_db_always_admin(f, rd, wr1, wr2) ==
  IF ~exists(f) THEN ResetWithAdmin(f, rd, wr1, wr2)
  ELSE LET data == _load(f, rd)
       IN IF data.kind = "scalar" THEN ResetWithAdmin(f, rd, wr1, wr2)
          ELSE IF ~HasUsers(data)
          THEN [file |-> IF "admin" \in DOMAIN data.body
                         THEN _save(f, Doc(data.body), wr1)
                         ELSE _save(f, Doc(EmptyMap), wr1),
                raised |-> FALSE, admin_ok |-> FALSE]
          ELSE LET r == register_user(f, "admin", "admin", rd, wr2)
               IN [file |-> r.file, raised |-> r.raised, admin_ok |-> r.ok]

_ensure_db(f, rd, wr1, wr2) ==
  IF ~exists(f) THEN ResetWithAdmin(f, rd, wr1, wr2)
  ELSE LET data == _load(f, rd)
       IN IF data.kind = "scalar"
          THEN \* "users" not in data  raises TypeError: the except branch
               ResetWithAdmin(f, rd, wr1, wr2)
          ELSE IF ~HasUsers(data)
          THEN [file |-> IF "admin" \in DOMAIN data.body
                         THEN _save(f, Doc(data.body), wr1)
                         ELSE _save(f, Doc(EmptyMap), wr1),
                raised |-> FALSE, admin_ok |-> FALSE]
          ELSE [file |-> f, raised |-> FALSE, admin_ok |-> FALSE]

(* ----------------------------- AI_Engine ------------------------------ *)
\* the lines of classes.txt, stripped; the line order is the class index
ClassesFile == <<Tomato___Late_blight, <<"T","o","m","a","t","o","_","_","_","h","e","a","l","t","h","y">>>>
Unknown == <<"U","n","k","n","o","w","n">>

\* AI_Engine.__init__.  warmed and failed_at are not attributes of the
\* object: they record that the warm-up call returned, and the step of
\* load_resources that raised
AI_Engine_init ==
  [model |-> "None", classes |-> <<>>, is_ready |-> FALSE, mode |-> "standard",
   warmed |-> FALSE, failed_at |-> "None"]

\* the except branch of load_resources: the attributes assigned so far stay
AIFail(a, step) == [ai |-> [a EXCEPT !.failed_at = step], status |-> "AI Failed"]

load_resources_ready_first(a, import_ok, classes_exist, model_exists, load_ok, layer_ok, warm_ok) ==
  LET a1 == [a EXCEPT !.classes = IF classes_exist THEN ClassesFile ELSE <<Unknown>>,
                      !.is_ready = TRUE]
      a2 == IF load_ok THEN [a1 EXCEPT !.model = "keras"]
            ELSE [a1 EXCEPT !.model = "layer", !.mode = "layer"]
  IN IF ~import_ok THEN AIFail(a, "import")
     ELSE IF ~model_exists THEN AIFail(a1, "missing model")
     ELSE IF ~load_ok /\ ~layer_ok THEN AIFail(a1, "load")
     ELSE IF ~warm_ok THEN AIFail(a2, "warm-up")
     ELSE [ai |-> [a2 EXCEPT !.warmed = TRUE], status |-> "Ready"]

\* AI_Engine.load_resources; the arguments say which of its steps succeed:
\* the imports, os.path.exists of the two artifacts, load_model, the
\* TFSMLayer fallback tried when load_model raises, and the warm-up call.
\* The result is the engine and the last text given to the callback.
load_resources(a, import_ok, classes_exist, model_exists, load_ok, layer_ok, warm_ok) ==
  LET a1 == [a EXCEPT !.classes = IF classes_exist THEN ClassesFile ELSE <<Unknown>>]
      a2 == IF load_ok THEN [a1 EXCEPT !.model = "keras"]
            ELSE [a1 EXCEPT !.model = "layer", !.mode = "layer"]
  IN IF ~import_ok THEN AIFail(a, "import")
     ELSE IF ~model_exists THEN AIFail(a1, "missing model")
     ELSE IF ~load_ok /\ ~layer_ok THEN AIFail(a1, "load")
     ELSE IF ~warm_ok THEN AIFail(a2, "warm-up")
     ELSE [ai |-> [a2 EXCEPT !.warmed = TRUE, !.is_ready = TRUE], status |-> "Ready"]

\* f"Class {idx}"
ClassLabel(idx) == <<"C","l","a","s","s"," ">> \o Digits(idx)

\* AI_Engine.predict: NoReport stands for None.  infer_ok says whether image
\* loading and inference run without an exception, idx is the argmax of the
\* model's output and bp its maximum, in basis points
predict(a, infer_ok, idx, bp) ==
  IF ~a.is_ready THEN NoReport
  ELSE IF ~infer_ok THEN NoReport
  ELSE generate_report(IF idx < Len(a.classes) THEN a.classes[idx + 1] ELSE ClassLabel(idx), bp)

\* what the classifier can answer: a class of the label list and one past it
ClassIndexes == {0, 2}
ScanConfidences == {9300}
\* the file chosen in the Upload dialog
ChosenFiles == { <<"d","/","a">> }

(* -------------------------------- App --------------------------------- *)
WAITING == "Waiting for analysis..."
ANALYSIS_FAILED == "Analysis Failed."
DETAILS == "details"

\* the text box of the scan tab: one of the two fixed texts, or the details
\* of a report
Shown(text, details) == [text |-> text, details |-> details]

\* no window yet.  message is the text of the last message box, status the
\* label of the loading screen, raised whether an exception left a handler
NoApp ==
  [view |-> "None", user |-> "None", curr |-> <<>>, btn_run |-> "disabled",
   report_area |-> Shown("", NoReport.details), message |-> "", status |-> "",
   raised |-> FALSE]

show_loading(a) == [a EXCEPT !.view = "loading", !.status = "Initializing..."]
show_login(a) == [a EXCEPT !.view = "login"]
reg_view(a) == [a EXCEPT !.view = "register"]

\* App.dashboard, which ends in view_scan: a fresh scan tab
dashboard(a) ==
  [a EXCEPT !.view = "scan", !.btn_run = "disabled",
            !.report_area = Shown(WAITING, NoReport.details)]

\* the value register_user returns: the pair (ok, message)
register_user_value(ok) == <<ok, IF ok THEN "Success" ELSE "Username taken">>

\* Python's truth value of a tuple
truthy(t) == Len(t) > 0

\* App.login, given what verify_user returned
login(a, u, verified) ==
  IF verified THEN dashboard([a EXCEPT !.user = u])
  ELSE [a EXCEPT !.message = "Invalid Login"]

\* App.register, given what register_user returned
register(a, value) ==
  IF truthy(value) THEN show_login([a EXCEPT !.message = "Registered!"])
  ELSE [a EXCEPT !.message = "Username taken"]

\* App.upload with a file chosen; Image.open may raise after curr is set
upload(a, f, image_ok) ==
  IF image_ok THEN [a EXCEPT !.curr = f, !.btn_run = "normal"]
  ELSE [a EXCEPT !.curr = f, !.raised = TRUE]

(* ------------------------------ the state ------------------------------ *)
\* records found in store files written before this run
LegacyItem == [id |-> "0a0a0a0a", name |-> "Seedlings", qty |-> "12",
               notes |-> "", date |-> "2023-11-30"]
OtherItem == [id |-> "0b0b0b0b", name |-> "Twine", category |-> "Other", qty |-> "1",
              notes |-> "", date |-> "2023-12-02"]
OldEntry == [date |-> "2023-12-02 09:15", file |-> <<"o">>,
             result |-> <<GLYPH_WARN, " ">> \o Late_blight_text, status |-> "Infected"]
LegacyAdmin == [password |-> "admin", history |-> <<>>, inventory |-> <<LegacyItem>>]
ToolItem == [id |-> "0c0c0c0c", name |-> "Spade", category |-> "Tool", qty |-> "2",
             notes |-> "", date |-> "2023-12-05"]
SeedItem == [id |-> "0d0d0d0d", name |-> "Basil", category |-> "Seed", qty |-> "40",
             notes |-> "", date |-> "2023-12-06"]
HashedAdmin == [password |-> _hash("admin"), history |-> <<>>, inventory |-> <<ToolItem, SeedItem>>]
OldAlice == [password |-> _hash("x"), history |-> <<OldEntry>>, inventory |-> <<OtherItem>>]

InitFiles ==
  { MissingFile, UnparseableFile, ScalarFile,
    Flat(EmptyMap),
    Flat(Put(EmptyMap, "alice", OldAlice)),
    Flat(Put(EmptyMap, "admin", LegacyAdmin)),
    Doc(EmptyMap),
    Doc(Put(EmptyMap, "admin", HashedAdmin)),
    Doc(Put(Put(EmptyMap, "admin", LegacyAdmin), "alice", OldAlice)) }

RECURSIVE SumOver(_, _)
SumOver(m, S) ==
  IF S = {} THEN 0
  ELSE LET k == CHOOSE k \in S : TRUE IN m[k] + SumOver(m, S \ {k})

\* inventory items plus history entries the persisted store holds
TotalRecords(f) ==
  LET us == StoreUsers(f)
  IN SumOver([u \in DOMAIN us |-> Len(us[u].inventory) + Len(us[u].history)], DOMAIN us)

\* what the last operation returned: ok for register_user and verify_user,
\* list for get_inventory and get_history, stats for get_stats
NoStats == [Plant |-> 0, Seed |-> 0, Tool |-> 0, Other |-> 0]
Ret(op, ok, list, stats, raised) ==
  [op |-> op, ok |-> ok, list |-> list, stats |-> stats, raised |-> raised]
RetNone(op, raised) == Ret(op, FALSE, <<>>, NoStats, raised)

\* the password of the first register_user call of this run that returned
\* ok and whose record reached the file
Noted(reg, u, p, ok, f) ==
  IF ok /\ u \notin DOMAIN reg /\ u \in DOMAIN StoreUsers(f) /\ StoreUsers(f)[u].password = _hash(p)
  THEN Put(reg, u, p) ELSE reg

InitDB ==
  /\ file \in InitFiles
  /\ constructed = FALSE
  /\ ret = RetNone("start", FALSE)
  /\ registered = EmptyMap

Init ==
  /\ raw_label = <<>>
  /\ confidence = 0
  /\ report = NoReport
  /\ InitDB
  /\ ai = AI_Engine_init
  /\ app = NoApp

InitKB ==
  /\ raw_label \in RawLabels
  /\ confidence \in Confidences
  /\ report = NoReport
  /\ file = MissingFile
  /\ constructed = FALSE
  /\ ret = RetNone("start", FALSE)
  /\ registered = EmptyMap
  /\ ai = AI_Engine_init
  /\ app = NoApp

(* ------------------------------ actions ------------------------------- *)
\* DataManager.__init__: the application starts
EnsureDb(rd, wr1, wr2) ==
  LET r == _ensure_db(file, rd, wr1, wr2)
  IN /\ file' = r.file
     /\ constructed' = ~r.raised
     /\ ret' = RetNone("_ensure_db", r.raised)
     /\ registered' = Noted(registered, "admin", "admin", r.admin_ok, r.file)
     /\ UNCHANGED <<kbVars, appVars>>

RegisterUser(u, p, rd, wr) ==
  LET r == register_user(file, u, p, rd, wr)
  IN /\ constructed
     /\ file' = r.file
     /\ ret' = Ret("register_user", r.ok, <<>>, NoStats, r.raised)
     /\ registered' = Noted(registered, u, p, r.ok, r.file)
     /\ UNCHANGED <<constructed, kbVars, appVars>>

VerifyUser(u, p, rd) ==
  LET r == verify_user(file, u, p, rd)
  IN /\ constructed
     /\ ret' = Ret("verify_user", r.val, <<>>, NoStats, r.raised)
     /\ UNCHANGED <<file, constructed, registered, kbVars, appVars>>

AddItem(user, name, category, qty, notes, id, today, rd, wr) ==
  LET r == add_item(file, user, name, category, qty, notes, id, today, rd, wr)
  IN /\ constructed
     /\ TotalRecords(file) < MaxRecords
     /\ file' = r.file
     /\ ret' = RetNone("add_item", r.raised)
     /\ UNCHANGED <<constructed, registered, kbVars, appVars>>

GetInventory(user, rd) ==
  LET r == get_inventory(file, user, rd)
  IN /\ constructed
     /\ ret' = Ret("get_inventory", FALSE, r.val, NoStats, r.raised)
     /\ UNCHANGED <<file, constructed, registered, kbVars, appVars>>

DeleteItem(user, item_id, rd, wr) ==
  LET r == delete_item(file, user, item_id, rd, wr)
  IN /\ constructed
     /\ file' = r.file
     /\ ret' = RetNone("delete_item", r.raised)
     /\ UNCHANGED <<constructed, registered, kbVars, appVars>>

GetStats(user, rd) ==
  LET r == get_stats(file, user, rd)
  IN /\ constructed
     /\ ret' = Ret("get_stats", FALSE, <<>>, r.val, r.raised)
     /\ UNCHANGED <<file, constructed, registered, kbVars, appVars>>

LogScan(user, img_path, rep, now, rd, wr) ==
  LET r == log_scan(file, user, img_path, rep, now, rd, wr)
  IN /\ constructed
     /\ TotalRecords(file) < MaxRecords
     /\ file' = r.file
     /\ ret' = RetNone("log_scan", r.raised)
     /\ UNCHANGED <<constructed, registered, kbVars, appVars>>

GetHistory(user, rd) ==
  LET r == get_history(file, user, rd)
  IN /\ constructed
     /\ ret' = Ret("get_history", FALSE, r.val, NoStats, r.raised)
     /\ UNCHANGED <<file, constructed, registered, kbVars, appVars>>

\* the DataManager operations, each read drawing its outcome from R and each
\* write from W
NextDB(R, W) ==
  \/ \E rd \in R, wr1 \in W, wr2 \in W : EnsureDb(rd, wr1, wr2)
  \/ \E u \in UserNames, p \in Passwords, rd \in R, wr \in W : RegisterUser(u, p, rd, wr)
  \/ \E u \in UserNames, p \in Passwords, rd \in R : VerifyUser(u, p, rd)
  \/ \E u \in UserNames, n \in ItemNames, c \in AddCategories, q \in Qtys, t \in Notes,
        id \in Ids, d \in Dates, rd \in R, wr \in W : AddItem(u, n, c, q, t, id, d, rd, wr)
  \/ \E u \in UserNames, rd \in R : GetInventory(u, rd)
  \/ \E u \in UserNames, id \in Ids, rd \in R, wr \in W : DeleteItem(u, id, rd, wr)
  \/ \E u \in UserNames, rd \in R : GetStats(u, rd)
  \/ \E u \in UserNames, ip \in ImagePaths, rep \in ScanReports, now \in Times,
        rd \in R, wr \in W : LogScan(u, ip, rep, now, rd, wr)
  \/ \E u \in UserNames, rd \in R : GetHistory(u, rd)

\* file I/O succeeds: a read fails only on a missing or unparseable file
Next == NextDB({"ok"}, {"ok"})
Spec == Init /\ [][Next]_vars

\* any open of the file, for reading or for writing, may fail
NextFault == NextDB(ReadOutcomes, WriteOutcomes)
SpecFault == Init /\ [][NextFault]_vars

\* the report generator alone, over the labels a classifier can produce
NextKB == GenerateReport
SpecKB == InitKB /\ [][NextKB]_vars

(* --------------------------- the application -------------------------- *)
\* App.__init__: DataManager(), AI_Engine(), then the loading screen
AppInit(rd, wr1, wr2) ==
  LET r == _ensure_db(file, rd, wr1, wr2)
  IN /\ app.view = "None"
     /\ ~constructed
     /\ file' = r.file
     /\ constructed' = ~r.raised
     /\ ret' = RetNone("_ensure_db", r.raised)
     /\ registered' = Noted(registered, "admin", "admin", r.admin_ok, r.file)
     /\ ai' = AI_Engine_init
     /\ app' = IF r.raised THEN [app EXCEPT !.raised = TRUE] ELSE show_loading(app)
     /\ UNCHANGED kbVars

\* App._boot: load_resources, then the login screen
Boot(import_ok, classes_exist, model_exists, load_ok, layer_ok, warm_ok) ==
  LET r == load_resources(ai, import_ok, classes_exist, model_exists, load_ok, layer_ok, warm_ok)
  IN /\ app.view = "loading"
     /\ ai' = r.ai
     /\ app' = show_login([app EXCEPT !.status = r.status])
     /\ UNCHANGED <<kbVars, dbVars>>

\* the Create Account button
RegView ==
  /\ app.view = "login"
  /\ app' = reg_view(app)
  /\ UNCHANGED <<kbVars, dbVars, ai>>

\* the Back and Sign Out buttons
ShowLogin ==
  /\ app.view \in {"register", "scan"}
  /\ app' = show_login(app)
  /\ UNCHANGED <<kbVars, dbVars, ai>>

\* the Login button
Login(u, p, rd) ==
  LET r == verify_user(file, u, p, rd)
  IN /\ app.view = "login"
     /\ ret' = Ret("verify_user", r.val, <<>>, NoStats, r.raised)
     /\ app' = IF r.raised THEN [app EXCEPT !.raised = TRUE] ELSE login(app, u, r.val)
     /\ UNCHANGED <<file, constructed, registered, kbVars, ai>>

\* the Register button
Register(u, p, rd, wr) ==
  LET r == register_user(file, u, p, rd, wr)
  IN /\ app.view = "register"
     /\ file' = r.file
     /\ ret' = Ret("register_user", r.ok, <<>>, NoStats, r.raised)
     /\ registered' = Noted(registered, u, p, r.ok, r.file)
     /\ app' = IF r.raised THEN [app EXCEPT !.raised = TRUE]
               ELSE register(app, register_user_value(r.ok))
     /\ UNCHANGED <<constructed, kbVars, ai>>

\* the Upload button, a file chosen in the dialog
Upload(f, image_ok) ==
  /\ app.view = "scan"
  /\ app' = upload(app, f, image_ok)
  /\ UNCHANGED <<kbVars, dbVars, ai>>

\* the Generate Report button: App.run_ai
RunAi(infer_ok, idx, bp, now, rd, wr) ==
  LET rep == predict(ai, infer_ok, idx, bp)
      r == log_scan(file, app.user, app.curr, rep, now, rd, wr)
  IN /\ app.view = "scan"
     /\ app.btn_run = "normal"
     /\ TotalRecords(file) < MaxRecords
     /\ IF rep # NoReport
        THEN /\ file' = r.file
             /\ ret' = RetNone("log_scan", r.raised)
             /\ app' = [app EXCEPT !.report_area = Shown(DETAILS, rep.details),
                                   !.raised = app.raised \/ r.raised]
        ELSE /\ app' = [app EXCEPT !.report_area = Shown(ANALYSIS_FAILED, NoReport.details)]
             /\ UNCHANGED <<file, ret>>
     /\ UNCHANGED <<kbVars, constructed, registered, ai>>

\* one run of the application with file I/O succeeding: start-up, the
\* sign-in and registration screens, and the scan tab
NextApp ==
  \/ AppInit("ok", "ok", "ok")
  \/ \E i \in BOOLEAN, c \in BOOLEAN, m \in BOOLEAN, l \in BOOLEAN, t \in BOOLEAN,
        w \in BOOLEAN : Boot(i, c, m, l, t, w)
  \/ RegView
  \/ ShowLogin
  \/ \E u \in UserNames, p \in Passwords : Login(u, p, "ok")
  \/ \E u \in UserNames, p \in Passwords : Register(u, p, "ok", "ok")
  \/ \E f \in ChosenFiles : Upload(f, TRUE)
  \/ \E i \in BOOLEAN, idx \in ClassIndexes, bp \in ScanConfidences, now \in Times :
        RunAi(i, idx, bp, now, "ok", "ok")
SpecApp == Init /\ [][NextApp]_vars

(* ------------------------------- claims -------------------------------- *)
IsSuffix(a, b) == Len(a) <= Len(b) /\ SubSeq(b, Len(b) - Len(a) + 1, Len(b)) = a

\* C1: an existing store file that is not JSON is, after _ensure_db returns
\* without raising, a valid document whose users map holds exactly "admin",
\* and verify_user("admin", "admin") is true.
C1_CorruptFileRecovery ==
  [][ (file.kind = "unparseable" /\ EnsureDb("ok", "ok", "ok") /\ ~ret'.raised)
        => /\ HasUsers(file')
           /\ DOMAIN StoreUsers(file') = {"admin"}
           /\ verify_user(file', "admin", "admin", "ok").val ]_vars

\* C2: generate_report uses the advisory of the first ADVICE key, in table
\* order, that occurs in the lower-cased normalized label, the generic advisory
\* when none does; and for "Tomato___Late_blight" the report is "Infected", its
\* title contains "Late blight" and its details carry the late-blight treatment.
C2_AdviceSelection ==
  report # NoReport =>
    LET norm == Lower(Strip(ReplaceUnderscore(raw_label)))
        occurs == {k \in 1..5 : Contains(norm, ADVICE_KEYS[k])}
    IN /\ \A k \in occurs :
            (\A j \in occurs : k <= j) => report.details.treatment = ADVICE[k].treatment
       /\ occurs = {} => report.details.treatment = GENERIC_ADVICE.treatment
       /\ raw_label = Tomato___Late_blight =>
            /\ report.status = "Infected"
            /\ Contains(report.title, Late_blight_text)
            /\ report.details.treatment = "Use fungicides with chlorothalonil/copper immediately."

\* C3: a user that register_user has persisted stays in the store file, with
\* the same password hash, whatever DataManager operations follow, reads of
\* the file that fail included.
C3_UserNeverDeleted ==
  \A u \in DOMAIN registered :
     /\ u \in DOMAIN StoreUsers(file)
     /\ StoreUsers(file)[u].password = _hash(registered[u])

\* C4: register_user for a name the store already holds returns ok = false
\* and leaves the store as it was, so the record still carries the hash of
\* the first successful registration's password.
C4_UsernameUnique ==
  [][ ret'.op = "register_user" => \A u \in UserNames, p \in Passwords :
        (u \in DOMAIN StoreUsers(file) /\ RegisterUser(u, p, "ok", "ok"))
          => /\ ret'.ok = FALSE
             /\ ~ret'.raised
             /\ file' = file
             /\ u \in DOMAIN registered
                  => StoreUsers(file')[u].password = _hash(registered[u]) ]_vars

\* a second registration of alice has been refused
C4_Witness ==
  /\ ret.op = "register_user" /\ ret.ok = FALSE /\ ~ret.raised
  /\ DOMAIN StoreUsers(file) = {"alice"}
  /\ "alice" \in DOMAIN registered

\* C5: with file I/O succeeding, verify_user(u, p) is true exactly when the
\* store holds u and u's stored hash is the hash of p; so a registered user
\* verifies with the registration password and with no password of another
\* hash, and a name the store does not hold never verifies.
C5_Authentication ==
  constructed =>
    /\ \A u \in UserNames, p \in Passwords :
         LET r == verify_user(file, u, p, "ok")
         IN /\ ~r.raised
            /\ r.val <=> (u \in DOMAIN StoreUsers(file)
                            /\ StoreUsers(file)[u].password = _hash(p))
    /\ \A u \in DOMAIN registered :
         /\ verify_user(file, u, registered[u], "ok").val
         /\ \A y \in Passwords :
              _hash(y) # _hash(registered[u]) => ~verify_user(file, u, y, "ok").val
    /\ \A n \in UserNames \ DOMAIN StoreUsers(file), x \in Passwords :
         ~verify_user(file, n, x, "ok").val
    /\ (ret.op = "verify_user" /\ ret.ok)
         => \E u \in DOMAIN StoreUsers(file), p \in Passwords :
               StoreUsers(file)[u].password = _hash(p)

\* alice has registered and a login has just been accepted
C5_Witness ==
  /\ ret.op = "verify_user" /\ ret.ok = TRUE
  /\ DOMAIN StoreUsers(file) = {"alice"}
  /\ "alice" \in DOMAIN registered

\* C6: delete_item(user, id) for an id present in an existing user's
\* inventory removes exactly one item and keeps the others in order, other
\* users untouched; for an unknown user or an absent id the store content is
\* unchanged.
C6_DeleteExactlyOne ==
  [][ ret'.op = "delete_item" => \A user \in UserNames, id \in Ids :
        DeleteItem(user, id, "ok", "ok") =>
          IF user \in DOMAIN StoreUsers(file)
               /\ \E k \in 1..Len(StoreUsers(file)[user].inventory) :
                     StoreUsers(file)[user].inventory[k].id = id
          THEN LET inv == StoreUsers(file)[user].inventory
                   after == StoreUsers(file')[user].inventory
               IN /\ Len(after) = Len(inv) - 1
                  /\ \E k \in 1..Len(inv) :
                       /\ inv[k].id = id
                       /\ after = SubSeq(inv, 1, k - 1) \o SubSeq(inv, k + 1, Len(inv))
                  /\ \A v \in DOMAIN StoreUsers(file) \ {user} :
                       StoreUsers(file')[v] = StoreUsers(file)[v]
          ELSE file' = file ]_vars

\* C7: with file I/O succeeding, add_item for an existing user puts the new
\* item, with the name, category, qty and notes given, first in what
\* get_inventory returns, followed by the inventory as it was; for an unknown
\* user nothing changes and get_inventory returns the empty sequence.
C7_AddItemRoundTrip ==
  [][ ret'.op = "add_item" =>
      \A user \in UserNames, n \in ItemNames, c \in AddCategories, q \in Qtys,
         t \in Notes, id \in Ids, d \in Dates :
        AddItem(user, n, c, q, t, id, d, "ok", "ok") =>
          LET before == get_inventory(file, user, "ok").val
              after == get_inventory(file', user, "ok").val
          IN IF user \in DOMAIN StoreUsers(file)
             THEN /\ Len(after) = Len(before) + 1
                  /\ after[1].name = n /\ after[1].category = c
                  /\ after[1].qty = q /\ after[1].notes = t
                  /\ Tail(after) = before
             ELSE file' = file /\ after = <<>> ]_vars

\* an item has just been added in front of an earlier one
C7_Witness ==
  /\ ret.op = "add_item"
  /\ \E u \in DOMAIN StoreUsers(file) :
       LET inv == StoreUsers(file)[u].inventory
       IN Len(inv) >= 2 /\ inv[1].id \in Ids /\ inv[1].category = "Fertilizer"

\* C8: with file I/O succeeding, a second _ensure_db right after the first
\* leaves the store file as the first left it, whatever the file was (missing,
\* valid, legacy flat, unrecognizable, unparseable); and on a store that
\* already has the users key the first run changes nothing.
C8_EnsureIdempotent ==
  [][ (ret'.op = "_ensure_db" /\ EnsureDb("ok", "ok", "ok")) =>
        /\ _ensure_db(file', "ok", "ok", "ok").file = file'
        /\ ~_ensure_db(file', "ok", "ok", "ok").raised
        /\ HasUsers(file) => file' = file ]_vars

\* the legacy flat document has just been wrapped under the users key
C8_Witness ==
  /\ ret.op = "_ensure_db"
  /\ file = Doc(Put(EmptyMap, "admin", LegacyAdmin))

\* the base names of ImagePaths
ExpectedBaseName(ip) == IF ip = <<"d","/","a">> THEN <<"a">> ELSE ip

\* C9: with file I/O succeeding, every step keeps each user's earlier history
\* as a suffix of the later one; log_scan for an existing user puts exactly
\* one entry (base name of the image path, the report's title and status) in
\* front, and log_scan for an unknown user changes nothing.
C9_HistoryPrependOnly ==
  [][ /\ \A u \in DOMAIN StoreUsers(file) :
           /\ u \in DOMAIN StoreUsers(file')
           /\ IsSuffix(StoreUsers(file)[u].history, StoreUsers(file')[u].history)
      /\ ret'.op = "log_scan" =>
         \A user \in UserNames, ip \in ImagePaths, rep \in ScanReports, now \in Times :
           LogScan(user, ip, rep, now, "ok", "ok") =>
             IF user \in DOMAIN StoreUsers(file)
             THEN LET h == StoreUsers(file)[user].history
                      h2 == StoreUsers(file')[user].history
                  IN /\ Len(h2) = Len(h) + 1
                     /\ Tail(h2) = h
                     /\ h2[1].file = ExpectedBaseName(ip)
                     /\ h2[1].result = rep.title
                     /\ h2[1].status = rep.status
                     /\ get_history(file', user, "ok").val = h2
             ELSE file' = file ]_vars

\* a scan has just been logged in front of an earlier entry
C9_Witness ==
  /\ ret.op = "log_scan"
  /\ \E u \in DOMAIN StoreUsers(file) :
       LET h == StoreUsers(file)[u].history
       IN Len(h) >= 2 /\ h[1].file = <<"a">> /\ h[2].file = <<"b">>

\* the items of inv that get_stats is to count under key
CountedUnder(inv, key) ==
  {k \in 1..Len(inv) :
     IF "category" \in DOMAIN inv[k] /\ inv[k].category \in {"Plant", "Seed", "Tool"}
     THEN inv[k].category = key ELSE key = "Other"}

\* C10: get_stats returns counts over exactly Plant, Seed, Tool and Other;
\* an item of category Plant, Seed or Tool is counted under it and any other
\* item (Fertilizer, no category) under Other, so the counts sum to the length
\* of the inventory; an unknown user yields all zeros.
C10_StatsAggregation ==
  \A user \in UserNames :
     LET r == get_stats(file, user, "ok")
         inv == get_inventory(file, user, "ok").val
     IN /\ DOMAIN r.val = {"Plant", "Seed", "Tool", "Other"}
        /\ \A key \in DOMAIN r.val : r.val[key] = Cardinality(CountedUnder(inv, key))
        /\ r.val.Plant + r.val.Seed + r.val.Tool + r.val.Other = Len(inv)
        /\ user \notin DOMAIN StoreUsers(file)
             => r.val = [Plant |-> 0, Seed |-> 0, Tool |-> 0, Other |-> 0]

\* get_stats has just counted a Fertilizer item and an item without a
\* category under Other
C10_Witness ==
  /\ ret.op = "get_stats"
  /\ ret.stats = [Plant |-> 0, Seed |-> 0, Tool |-> 0, Other |-> 2]
  /\ \E u \in DOMAIN StoreUsers(file) :
       LET inv == StoreUsers(file)[u].inventory
       IN Len(inv) = 2 /\ inv[1].category = "Fertilizer" /\ "category" \notin DOMAIN inv[2]

\* C11: in a run of the application with file I/O succeeding, once a step of
\* load_resources has failed (import, missing model, load, warm-up) is_ready
\* is false and stays false; is_ready is true only with a model loaded and the
\* warm-up call returned; a scan with the classifier not ready gets no report;
\* a scan that gets no report shows the failure text and changes neither the
\* store nor the raised flag; and a scan that gets a report shows its details
\* and puts exactly one entry, for the signed-in user, in front of that
\* user's history.
C11_ClassifierTolerated ==
  [][ /\ (ai'.failed_at # "None" => ~ai'.is_ready)
      /\ (ai.failed_at # "None" => ai'.failed_at # "None")
      /\ (ai'.is_ready => ai'.model # "None" /\ ai'.warmed)
      /\ (app.view = "scan" /\ app.btn_run = "normal") =>
         \A i \in BOOLEAN, idx \in ClassIndexes, bp \in ScanConfidences, now \in Times :
           RunAi(i, idx, bp, now, "ok", "ok") =>
             LET rep == predict(ai, i, idx, bp)
             IN /\ (~ai.is_ready => rep = NoReport)
                /\ app'.raised = app.raised
                /\ IF rep = NoReport
                   THEN /\ app'.report_area.text = ANALYSIS_FAILED
                        /\ file' = file
                   ELSE /\ app'.report_area = Shown(DETAILS, rep.details)
                        /\ app.user \in DOMAIN StoreUsers(file)
                        /\ \A u \in DOMAIN StoreUsers(file) \ {app.user} :
                             StoreUsers(file')[u] = StoreUsers(file)[u]
                        /\ LET h == StoreUsers(file)[app.user].history
                               h2 == StoreUsers(file')[app.user].history
                           IN /\ Len(h2) = Len(h) + 1
                              /\ Tail(h2) = h
                              /\ h2[1].result = rep.title
                              /\ h2[1].status = rep.status ]_vars

\* load_resources failed at the warm-up, with a model loaded, and a scan has
\* then shown the failure text
C11_Witness ==
  /\ ai.failed_at = "warm-up"
  /\ ai.model # "None"
  /\ ~ai.is_ready
  /\ app.view = "scan"
  /\ app.report_area.text = ANALYSIS_FAILED
  /\ \A u \in DOMAIN StoreUsers(file) : StoreUsers(file)[u].history = <<>>

\* C12: a press of the Register button shows "Username taken" and stays on
\* the registration view whenever register_user returned ok = false, and
\* shows "Registered!" and goes to the login view only when register_user
\* returned ok = true.
C12_RegisterOutcomeShown ==
  [][ (app.view = "register" /\ ret'.op = "register_user") =>
      \A u \in UserNames, p \in Passwords :
        Register(u, p, "ok", "ok") =>
          /\ ~ret'.ok => (app'.message = "Username taken" /\ app'.view = "register")
          /\ (app'.message = "Registered!" /\ app'.view = "login") => ret'.ok ]_vars
====
